---- MODULE Spec2Model ----
(***************************************************************************)
(* Model of the HC32L110 NOR flash driver (src/flash/nor/hc32l110.c).      *)
(*                                                                         *)
(* The driver is single threaded.  The state is the bank descriptor, the   *)
(* position of the running driver call, the locals of that call, and the   *)
(* register accesses the call has issued so far (log).  The target and the *)
(* wall clock are the environment: every read of the control register      *)
(* returns busy or not busy, every alive_sleep(1) advances the clock by at *)
(* least one millisecond.                                                  *)
(***************************************************************************)
EXTENDS Integers, Sequences, FiniteSets, TLC

VARIABLES
    bank,        \* struct flash_bank: size, num_sectors, sectors
    pc,          \* position of the driver: "idle", inside a call, or "done"
    call,        \* the driver call in progress (or the last one finished)
    result,      \* return value of the last finished call
    log,         \* register accesses issued by the call, oldest first
    x,           \* loop variable x of hc32l110_erase / hc32l110_write_single
    unlock,      \* the last hc32l110_sunlock of the call: arguments, log place
    ret,         \* where hc32l110_check_flash_completion returns to
    timeout_ms,  \* parameter of hc32l110_check_flash_completion
    endtime,     \* local endtime of hc32l110_check_flash_completion
    now,         \* timeval_ms(), measured from the entry of the poll
    v,           \* local v of hc32l110_check_flash_completion
    reads,       \* control register reads of the current poll
    sleeps,      \* alive_sleep calls of the current poll
    retval,      \* value returned by hc32l110_check_flash_completion
    failed       \* place in the log of the register access the transport
                 \* failed (or will fail), 0 when there is none

vars == <<bank, pc, call, result, log, x, unlock, ret, timeout_ms, endtime,
          now, v, reads, sleeps, retval, failed>>

pollvars == <<ret, timeout_ms, endtime, now, v, reads, sleeps, retval>>

----------------------------------------------------------------------------
(* Register map and constants of the driver *)

HC32L110_FLASH_CR == 1073872928

HC32L110_FLASH_CR_BUSY == 16

HC32L110_FLASH_BYPASS == 1073872940

HC32L110_FLASH_SLOCK == 1073872944

HC32L110_FLASH_SIZE == 1051760

FLASH_SECTOR_SIZE == 512

SPROT_SEC_SIZE == 4096

FLASH_OP_PROGRAM == 1

FLASH_OP_ERASE_SECTOR == 2

FLASH_OP_ERASE_CHIP == 3

BYPASS_MAGIC_1 == 23130

BYPASS_MAGIC_2 == 42405

MASS_ERASE_TIMEOUT == 3500

SECTOR_ERASE_TIMEOUT == 50

PROGRAM_TIMEOUT == 1

MAX_FLASH_SIZE == 32768

MIN_FLASH_SIZE == 4096

PAD_BYTE == 255

ERROR_OK == "ERROR_OK"

ERROR_FLASH_OPERATION_FAILED == "ERROR_FLASH_OPERATION_FAILED"

ERROR_FLASH_SECTOR_NOT_ERASED == "ERROR_FLASH_SECTOR_NOT_ERASED"

----------------------------------------------------------------------------
(* Bounds of the model *)

\* longest buffer handed to write
MaxCount == 4

\* most sectors a ranged erase request spans
MaxEraseSpan == 2

\* longest time one alive_sleep(1) takes, in ms
MaxSleep == 3500

\* byte offsets of write requests
WriteOffsets == {0, 1, 2, 3, 4, 4093, 4096, 8190, 32764}

\* values the size report register can hold
SizeReports == {0, 4095, 4096, 5000, 16384, 32768, 32769}

\* first and last sector numbers of erase requests
FirstVals == {0, 1, 3, 7}

LastVals == {0, 1, 2, 3, 4, 5, 7, 8, 9, 10, 32, 64, 65}

\* time one alive_sleep(1) can take
SleepMs == {1, MaxSleep}

----------------------------------------------------------------------------
(* Integer helpers for the C operators *)

Pow2(n) == 2 ^ n

\* a uint32_t as its four bytes, lowest first (for n below 2^31)
W32(n) ==
    << n % 256, (n \div 256) % 256, (n \div 65536) % 256, (n \div 16777216) % 256 >>

\* v >> 8 on the bytes of a uint32_t
Shr8(w) == << w[2], w[3], w[4], 0 >>

\* a & ~3
AlignDown4(a) == a - (a % 4)

\* a | b on naturals
RECURSIVE BitOr(_, _)
BitOr(a, b) ==
    IF a = 0 THEN b
    ELSE IF b = 0 THEN a
    ELSE (IF (a % 2 = 1) \/ (b % 2 = 1) THEN 1 ELSE 0)
         + 2 * BitOr(a \div 2, b \div 2)

\* a & b on naturals
RECURSIVE BitAnd(_, _)
BitAnd(a, b) ==
    IF a = 0 \/ b = 0 THEN 0
    ELSE (IF (a % 2 = 1) /\ (b % 2 = 1) THEN 1 ELSE 0)
         + 2 * BitAnd(a \div 2, b \div 2)

\* bit i of the mask m
Bit(m, i) == (m \div Pow2(i)) % 2 = 1

----------------------------------------------------------------------------
(* Log of register accesses.  op "w" is target_write_u32, op "r" is        *)
(* target_read_u32, op "poll" is one whole hc32l110_check_flash_completion  *)
(* (val is the last value it read, t its timeout).  val is the 32-bit      *)
(* value as its four bytes, lowest first.                                  *)

WriteAcc(addr, val) == [op |-> "w", addr |-> addr, val |-> val, t |-> 0]

ReadAcc(addr, val) == [op |-> "r", addr |-> addr, val |-> val, t |-> 0]

PollAcc(val, t) == [op |-> "poll", addr |-> HC32L110_FLASH_CR, val |-> val, t |-> t]

\* a driver call: its arguments, and size and num_sectors of the bank as
\* the call found it
NoCall == [op |-> "none", first |-> 0, last |-> 0, offset |-> 0, count |-> 0,
           buffer |-> <<>>, bank0 |-> [size |-> 0, num_sectors |-> 0]]

\* size and num_sectors of the bank at the entry of a call
BankAtEntry == [size |-> bank.size, num_sectors |-> bank.num_sectors]

NoUnlock == [called |-> FALSE, start_adr |-> 0, end_adr |-> 0, at |-> 0]

----------------------------------------------------------------------------
(* hc32l110_bypass, hc32l110_sunlock, hc32l110_slock_all *)

\* the two magic writes that open the SLOCK/CR registers
Bypass ==
    << WriteAcc(HC32L110_FLASH_BYPASS, W32(BYPASS_MAGIC_1)),
       WriteAcc(HC32L110_FLASH_BYPASS, W32(BYPASS_MAGIC_2)) >>

\* the start sector rounded up instead of down
SunlockStartSecCeil(start_adr) == (start_adr + SPROT_SEC_SIZE - 1) \div SPROT_SEC_SIZE

\* int start_sec = start_adr / SPROT_SEC_SIZE
SunlockStartSec(start_adr) == start_adr \div SPROT_SEC_SIZE

\* the end sector without the round up (a lost "+SPROT_SEC_SIZE-1")
SunlockEndSecFloor(end_adr) == end_adr \div SPROT_SEC_SIZE

\* int end_sec = (end_adr + SPROT_SEC_SIZE - 1) / SPROT_SEC_SIZE
SunlockEndSec(end_adr) == (end_adr + SPROT_SEC_SIZE - 1) \div SPROT_SEC_SIZE

\* for (int i = start_sec; i < end_sec; i++) b |= (1 << i)
RECURSIVE SunlockLoop(_, _, _)
SunlockLoop(i, end_sec, b) ==
    IF i < end_sec
    THEN SunlockLoop(i + 1, end_sec, BitOr(b, Pow2(i)))
    ELSE b

\* the mask hc32l110_sunlock writes for [start_adr, end_adr)
SunlockMask(start_adr, end_adr) ==
    SunlockLoop(SunlockStartSec(start_adr), SunlockEndSec(end_adr), 0)

\* hc32l110_sunlock leaving out the write of the mask
SunlockNoWrite(start_adr, end_adr) == Bypass

\* the register writes of hc32l110_sunlock
Sunlock(start_adr, end_adr) ==
    Bypass \o << WriteAcc(HC32L110_FLASH_SLOCK, W32(SunlockMask(start_adr, end_adr))) >>

\* what hc32l110_sunlock was called with, and the place of its SLOCK write
\* in the log
SunlockRec(start_adr, end_adr, at) ==
    [called |-> TRUE, start_adr |-> start_adr, end_adr |-> end_adr, at |-> at]

\* the register writes of hc32l110_slock_all
SlockAll == Bypass \o << WriteAcc(HC32L110_FLASH_SLOCK, W32(0)) >>

----------------------------------------------------------------------------
(* hc32l110_check_flash_completion *)

\* (v & HC32L110_FLASH_CR_BUSY) == 0
BusyClear(val) == BitAnd(val, HC32L110_FLASH_CR_BUSY) = 0

\* the operation mode the call last wrote to the control register
RECURSIVE LastMode(_)
LastMode(l) ==
    IF l = <<>> THEN 0
    ELSE IF l[Len(l)].op = "w" /\ l[Len(l)].addr = HC32L110_FLASH_CR
         THEN l[Len(l)].val[1]
         ELSE LastMode(SubSeq(l, 1, Len(l) - 1))

\* values a read of the control register can return: the mode, busy or not
CRValues == { LastMode(log), LastMode(log) + HC32L110_FLASH_CR_BUSY }

\* what target_read_u32(CR, &v) leaves in v: a failed read leaves v alone
ReadValues == IF failed = Len(log) + 1 THEN { v } ELSE CRValues

\* the deadline test passing only after the deadline
DeadlinePassedLate(t, e) == t > e

\* timeval_ms() >= endtime
DeadlinePassed(t, e) == t >= e

\* the poller reporting a deadline that passed with busy still set
CheckFlashCompletionTimeout(val) ==
    IF BusyClear(val) THEN ERROR_OK ELSE "ERROR_TIMEOUT_REACHED"

\* return ERROR_OK, whatever the loop was left with
CheckFlashCompletionReturn(val) == ERROR_OK

\* the state of the poll variables outside a poll
PollIdle ==
    /\ ret = "none"
    /\ timeout_ms = 0
    /\ endtime = 0
    /\ now = 0
    /\ v = HC32L110_FLASH_CR_BUSY
    /\ reads = 0
    /\ sleeps = 0
    /\ retval = "none"

\* entry of hc32l110_check_flash_completion(target, t), returning to r
EnterPoll(t, r) ==
    /\ pc' = "poll_read"
    /\ ret' = r
    /\ timeout_ms' = t
    /\ now' = 0
    /\ endtime' = 0 + t
    /\ v' = HC32L110_FLASH_CR_BUSY
    /\ reads' = 0
    /\ sleeps' = 0
    /\ retval' = "none"

\* the poll variables once the caller has looked at the return value
LeavePoll ==
    /\ ret' = "none"
    /\ timeout_ms' = 0
    /\ endtime' = 0
    /\ now' = 0
    /\ v' = HC32L110_FLASH_CR_BUSY
    /\ reads' = 0
    /\ sleeps' = 0
    /\ retval' = "none"

\* target_read_u32(CR, &v); if ((v & BUSY) == 0) break;
PollRead ==
    /\ pc = "poll_read"
    /\ \E val \in ReadValues :
        /\ v' = val
        /\ reads' = reads + 1
        /\ IF BusyClear(val)
           THEN /\ pc' = ret
                /\ retval' = CheckFlashCompletionReturn(val)
                /\ log' = Append(log, PollAcc(W32(val), timeout_ms))
           ELSE /\ pc' = "poll_sleep"
                /\ UNCHANGED <<retval, log>>
    /\ UNCHANGED <<bank, call, result, x, unlock, ret, timeout_ms, endtime,
                   now, sleeps>>
    /\ UNCHANGED failed

\* alive_sleep(1); if (timeval_ms() >= endtime) break;
PollSleep ==
    /\ pc = "poll_sleep"
    /\ \E d \in SleepMs :
        /\ now' = now + d
        /\ sleeps' = sleeps + 1
        /\ IF DeadlinePassed(now + d, endtime)
           THEN /\ pc' = ret
                /\ retval' = CheckFlashCompletionReturn(v)
                /\ log' = Append(log, PollAcc(W32(v), timeout_ms))
           ELSE /\ pc' = "poll_read"
                /\ UNCHANGED <<retval, log>>
    /\ UNCHANGED <<bank, call, result, x, unlock, ret, timeout_ms, endtime,
                   v, reads>>
    /\ UNCHANGED failed

----------------------------------------------------------------------------
(* hc32l110_probe *)

\* the range check with the lower limit off by one
ProbeSizeOkExclusive(flash_size) ==
    ~(flash_size > MAX_FLASH_SIZE \/ flash_size <= MIN_FLASH_SIZE)

\* the negation of: flash_size > 32768 || flash_size < 4096
ProbeSizeOk(flash_size) ==
    ~(flash_size > MAX_FLASH_SIZE \/ flash_size < MIN_FLASH_SIZE)

\* for (i = 0; i < num_sectors; ++i) { sectors[i] = ...; offset += size; }
RECURSIVE ProbeSectors(_, _, _, _)
ProbeSectors(i, num_sectors, offset, sectors) ==
    IF i < num_sectors
    THEN ProbeSectors(i + 1, num_sectors, offset + FLASH_SECTOR_SIZE,
                      Append(sectors, [offset |-> offset,
                                       size |-> FLASH_SECTOR_SIZE,
                                       is_erased |-> -1,
                                       is_protected |-> 0]))
    ELSE sectors

\* bank->num_sectors = bank->size / FLASH_SECTOR_SIZE
ProbeNumSectors(size) == size \div FLASH_SECTOR_SIZE

\* the bank descriptor with the new entries put behind the old table
ProbeBankKeepTable(flash_size) ==
    [base |-> bank.base,
     size |-> flash_size,
     num_sectors |-> ProbeNumSectors(flash_size),
     sectors |-> ProbeSectors(0, ProbeNumSectors(flash_size), 0, bank.sectors)]

\* the bank descriptor an accepted size report leaves
ProbeBank(flash_size) ==
    [base |-> bank.base,
     size |-> flash_size,
     num_sectors |-> ProbeNumSectors(flash_size),
     sectors |-> ProbeSectors(0, ProbeNumSectors(flash_size), 0, <<>>)]

\* hc32l110_probe with bank->size assigned before the range check
ProbeSizeFirst ==
    /\ pc = "idle"
    /\ \E flash_size \in (IF failed = 1 THEN { 0 } ELSE SizeReports) :
        /\ call' = [NoCall EXCEPT !.op = "probe", !.bank0 = BankAtEntry]
        /\ log' = << ReadAcc(HC32L110_FLASH_SIZE, W32(flash_size)) >>
        /\ IF ProbeSizeOk(flash_size)
           THEN /\ bank' = ProbeBank(flash_size)
                /\ result' = ERROR_OK
           ELSE /\ bank' = [bank EXCEPT !.size = flash_size]
                /\ result' = ERROR_FLASH_OPERATION_FAILED
    /\ pc' = "done"
    /\ x' = 0
    /\ unlock' = NoUnlock
    /\ UNCHANGED pollvars
    /\ UNCHANGED failed

\* the whole of hc32l110_probe; a read that fails leaves flash_size at 0,
\* which is the size report 0
Probe ==
    /\ pc = "idle"
    /\ \E flash_size \in (IF failed = 1 THEN { 0 } ELSE SizeReports) :
        /\ call' = [NoCall EXCEPT !.op = "probe", !.bank0 = BankAtEntry]
        /\ log' = << ReadAcc(HC32L110_FLASH_SIZE, W32(flash_size)) >>
        /\ IF ProbeSizeOk(flash_size)
           THEN /\ bank' = ProbeBank(flash_size)
                /\ result' = ERROR_OK
           ELSE /\ bank' = bank
                /\ result' = ERROR_FLASH_OPERATION_FAILED
    /\ pc' = "done"
    /\ x' = 0
    /\ unlock' = NoUnlock
    /\ UNCHANGED pollvars
    /\ UNCHANGED failed

----------------------------------------------------------------------------
(* hc32l110_erase *)

\* the mass erase test taking only a range past the last sector
IsMassEraseStrict(first, last, num_sectors) ==
    \/ BitOr(first, last) = 0
    \/ (first = 0 /\ last > num_sectors)

\* ((first | last) == 0) || ((first == 0) && (last >= bank->num_sectors))
IsMassErase(first, last, num_sectors) ==
    \/ BitOr(first, last) = 0
    \/ (first = 0 /\ last >= num_sectors)

\* the erase requests of the model: ranged ones span at most MaxEraseSpan
EraseRequests ==
    { r \in FirstVals \X LastVals :
        \/ r[2] - r[1] <= MaxEraseSpan
        \/ (r[1] = 0 /\ r[2] >= bank.num_sectors) }

\* adr = bank->base + (x * FLASH_SECTOR_SIZE)
SectorAdr(xx) == bank.base + (xx * FLASH_SECTOR_SIZE)

\* entry of hc32l110_erase, and the mass erase up to its poll
EraseBegin ==
    /\ pc = "idle"
    /\ \E r \in EraseRequests :
        /\ call' = [NoCall EXCEPT !.op = "erase", !.first = r[1], !.last = r[2],
                                  !.bank0 = BankAtEntry]
        /\ result' = "none"
        /\ IF IsMassErase(r[1], r[2], bank.num_sectors)
           THEN /\ log' = Bypass
                          \o << WriteAcc(HC32L110_FLASH_CR, W32(FLASH_OP_ERASE_CHIP)) >>
                          \o Sunlock(0, 32 * 1024)
                          \o << WriteAcc(0, W32(0)) >>
                /\ unlock' = SunlockRec(0, 32 * 1024, 6)
                /\ x' = 0
                /\ EnterPoll(MASS_ERASE_TIMEOUT, "erase_mass_after")
           ELSE /\ log' = <<>>
                /\ unlock' = NoUnlock
                /\ x' = r[1]
                /\ pc' = "erase_loop"
                /\ UNCHANGED pollvars
    /\ UNCHANGED bank
    /\ UNCHANGED failed

\* the end of the mass erase with every sector marked erased
EraseMassAfterMarkErased ==
    /\ pc = "erase_mass_after"
    /\ IF retval # ERROR_OK
       THEN /\ result' = ERROR_FLASH_OPERATION_FAILED
            /\ log' = log
            /\ bank' = bank
       ELSE /\ result' = ERROR_OK
            /\ log' = log \o SlockAll
            /\ bank' = [bank EXCEPT !.sectors =
                           [i \in 1..Len(bank.sectors) |->
                               [bank.sectors[i] EXCEPT !.is_erased = 1]]]
    /\ pc' = "done"
    /\ LeavePoll
    /\ UNCHANGED <<call, x, unlock>>
    /\ UNCHANGED failed

\* after the poll of the mass erase
EraseMassAfter ==
    /\ pc = "erase_mass_after"
    /\ IF retval # ERROR_OK
       THEN /\ result' = ERROR_FLASH_OPERATION_FAILED
            /\ log' = log
       ELSE /\ result' = ERROR_OK
            /\ log' = log \o SlockAll
    /\ pc' = "done"
    /\ LeavePoll
    /\ UNCHANGED <<bank, call, x, unlock>>
    /\ UNCHANGED failed

\* one pass of the sector loop, up to its poll
EraseSector ==
    /\ pc = "erase_loop"
    /\ x < call.last
    /\ log' = log
              \o Bypass
              \o << WriteAcc(HC32L110_FLASH_CR, W32(FLASH_OP_ERASE_SECTOR)) >>
              \o Bypass
              \o Sunlock(SectorAdr(x), SectorAdr(x) + FLASH_SECTOR_SIZE)
              \o << WriteAcc(HC32L110_FLASH_SLOCK, W32(Pow2(x \div 4))) >>
              \o << WriteAcc(SectorAdr(x), W32(0)) >>
    /\ unlock' = SunlockRec(SectorAdr(x), SectorAdr(x) + FLASH_SECTOR_SIZE,
                            Len(log) + 8)
    /\ EnterPoll(SECTOR_ERASE_TIMEOUT, "erase_sector_after")
    /\ UNCHANGED <<bank, call, result, x>>
    /\ UNCHANGED failed

\* after the poll of one sector
EraseSectorAfter ==
    /\ pc = "erase_sector_after"
    /\ IF retval # ERROR_OK
       THEN /\ result' = ERROR_FLASH_SECTOR_NOT_ERASED
            /\ pc' = "done"
            /\ x' = x
       ELSE /\ result' = result
            /\ pc' = "erase_loop"
            /\ x' = x + 1
    /\ LeavePoll
    /\ UNCHANGED <<bank, call, log, unlock>>
    /\ UNCHANGED failed

\* the sector loop is over: lock everything and return
EraseEnd ==
    /\ pc = "erase_loop"
    /\ ~(x < call.last)
    /\ log' = log \o SlockAll
    /\ result' = ERROR_OK
    /\ pc' = "done"
    /\ UNCHANGED <<bank, call, x, unlock, pollvars>>
    /\ UNCHANGED failed

----------------------------------------------------------------------------
(* hc32l110_write_single, hc32l110_write *)

\* the buffers of the model: at most MaxCount bytes, going round the byte
\* values from any of them on, so that neighbouring bytes differ
Buffers ==
    LET vals == << 170, 187, 204 >>
    IN  { [i \in 1..n |-> vals[((i + k) % 3) + 1]] : n \in 0..MaxCount, k \in 0..2 }

\* the write requests of the model: the range lies inside the bank
WriteRequests ==
    { r \in WriteOffsets \X Buffers : r[1] + Len(r[2]) <= bank.size }

\* the loop starting at the offset itself, not at the word below it
WriteLoopStartAtOffset(offset) == 0

\* neg_start = offset % 4; x = -neg_start
WriteLoopStart(offset) == -(offset % 4)

\* v >>= 8; v |= byte << 24, on the bytes of v
GatherStep(vv, byte) ==
    LET s == Shr8(vv)
    IN  << s[1], s[2], s[3], BitOr(s[4], byte) >>

\* the byte of the word at index x + b: from the buffer, or 0xFF
GatherByte(buffer, xb, count) ==
    IF xb < count /\ xb >= 0 THEN buffer[xb + 1] ELSE PAD_BYTE

\* for (b = 0; b < 4; b++) { v >>= 8; v |= ...; }
RECURSIVE GatherLoop(_, _, _, _, _)
GatherLoop(buffer, xx, count, b, vv) ==
    IF b < 4
    THEN GatherLoop(buffer, xx, count, b + 1,
                    GatherStep(vv, GatherByte(buffer, xx + b, count)))
    ELSE vv

\* the word with the bytes outside the buffer left at zero
GatherWordZeroPad(buffer, xx, count) ==
    LET byte(b) == IF xx + b < count /\ xx + b >= 0 THEN buffer[xx + b + 1] ELSE 0
    IN  << byte(0), byte(1), byte(2), byte(3) >>

\* the word hc32l110_write_single programs for loop index x
GatherWord(buffer, xx, count) == GatherLoop(buffer, xx, count, 0, W32(0))

\* entry of hc32l110_write_single, up to the loop
WriteBegin ==
    /\ pc = "idle"
    /\ \E r \in WriteRequests :
        LET offset == r[1]
            count  == Len(r[2])
        IN  /\ call' = [NoCall EXCEPT !.op = "write", !.offset = offset,
                                      !.count = count, !.buffer = r[2],
                                      !.bank0 = BankAtEntry]
            /\ log' = Bypass
                      \o << WriteAcc(HC32L110_FLASH_CR, W32(FLASH_OP_PROGRAM)) >>
                      \o Sunlock(AlignDown4(offset), AlignDown4(offset + count + 3))
            /\ unlock' = SunlockRec(AlignDown4(offset),
                                    AlignDown4(offset + count + 3), 6)
            /\ x' = WriteLoopStart(offset)
    /\ result' = "none"
    /\ pc' = "write_loop"
    /\ UNCHANGED <<bank, pollvars>>
    /\ UNCHANGED failed

\* one pass of the word loop, up to its poll
WriteWord ==
    /\ pc = "write_loop"
    /\ x < call.count
    /\ log' = Append(log, WriteAcc(call.offset + x,
                                   GatherWord(call.buffer, x, call.count)))
    /\ EnterPoll(PROGRAM_TIMEOUT, "write_after")
    /\ UNCHANGED <<bank, call, result, x, unlock>>
    /\ UNCHANGED failed

\* after the poll of one word; hc32l110_write maps any failure
WriteAfter ==
    /\ pc = "write_after"
    /\ IF retval # ERROR_OK
       THEN /\ result' = ERROR_FLASH_OPERATION_FAILED
            /\ pc' = "done"
            /\ x' = x
       ELSE /\ result' = result
            /\ pc' = "write_loop"
            /\ x' = x + 4
    /\ LeavePoll
    /\ UNCHANGED <<bank, call, log, unlock>>
    /\ UNCHANGED failed

\* the word loop is over: lock everything and return
WriteEnd ==
    /\ pc = "write_loop"
    /\ ~(x < call.count)
    /\ log' = log \o SlockAll
    /\ result' = ERROR_OK
    /\ pc' = "done"
    /\ UNCHANGED <<bank, call, x, unlock, pollvars>>
    /\ UNCHANGED failed

----------------------------------------------------------------------------
(* The driver as a whole *)

\* the caller of the flash_driver entry point has taken the return value
Return ==
    /\ pc = "done"
    /\ pc' = "idle"
    /\ call' = NoCall
    /\ result' = "none"
    /\ log' = <<>>
    /\ x' = 0
    /\ unlock' = NoUnlock
    /\ UNCHANGED <<bank, pollvars>>
    /\ failed' = 0

\* hc32l110_flash_bank_command: base 0, 32K assumed, no sector table yet
Init ==
    /\ bank = [base |-> 0, size |-> 32768, num_sectors |-> 0, sectors |-> <<>>]
    /\ pc = "idle"
    /\ call = NoCall
    /\ result = "none"
    /\ log = <<>>
    /\ x = 0
    /\ unlock = NoUnlock
    /\ PollIdle
    /\ failed = 0

Next ==
    \/ Probe
    \/ EraseBegin
    \/ EraseMassAfter
    \/ EraseSector
    \/ EraseSectorAfter
    \/ EraseEnd
    \/ WriteBegin
    \/ WriteWord
    \/ WriteAfter
    \/ WriteEnd
    \/ PollRead
    \/ PollSleep
    \/ Return

Spec == Init /\ [][Next]_vars

\* the transport breaks: the next register access of the driver fails
Fault ==
    /\ pc # "done"
    /\ failed = 0
    /\ failed' = Len(log) + 1
    /\ UNCHANGED <<bank, pc, call, result, log, x, unlock, pollvars>>

NextFaults == Next \/ Fault

\* the driver on a transport that can fail
SpecFaults == Init /\ [][NextFaults]_vars

\* the driver with a control register that is read again and a clock that
\* goes on: a poll that can take a step takes it
SpecFair == Spec /\ WF_vars(PollRead) /\ WF_vars(PollSleep)

----------------------------------------------------------------------------
(* Reading the log *)

\* the value of a 32-bit word given as its bytes (below 2^31)
WordVal(w) == w[1] + 256 * w[2] + 65536 * w[3] + 16777216 * w[4]

Registers ==
    { HC32L110_FLASH_CR, HC32L110_FLASH_BYPASS, HC32L110_FLASH_SLOCK,
      HC32L110_FLASH_SIZE }

\* writes to flash addresses: program words and erase triggers
IsFlashWrite(e) == e.op = "w" /\ e.addr \notin Registers

IsModeWrite(e) == e.op = "w" /\ e.addr = HC32L110_FLASH_CR

IsPoll(e) == e.op = "poll"

FlashWrites == SelectSeq(log, IsFlashWrite)

ModeWrites == SelectSeq(log, IsModeWrite)

Polls == SelectSeq(log, IsPoll)

InPoll == pc \in {"poll_read", "poll_sleep"}

AfterPoll == pc \in {"erase_mass_after", "erase_sector_after", "write_after"}

\* a poll of the log that ended with the busy bit still set
TimedOutAt(i) == log[i].op = "poll" /\ ~BusyClear(WordVal(log[i].val))

----------------------------------------------------------------------------
(* Program Engine *)

\* the 4-byte-aligned addresses of [offset & ~3, (offset + count + 3) & ~3)
AlignedSpanWords(offset, count) ==
    { a \in AlignDown4(offset) .. (AlignDown4(offset + count + 3) - 1) : a % 4 = 0 }

\* C1: the flash addresses a write call programs are aligned words of the
\* span [offset & ~3, (offset + count + 3) & ~3), no word is programmed
\* twice, and when the call has returned every aligned word of the span has
\* been programmed.
C1_WriteCoversAlignedSpan ==
    call.op = "write" =>
        LET fw == FlashWrites
            span == AlignedSpanWords(call.offset, call.count)
        IN  /\ \A i \in 1..Len(fw) : fw[i].addr \in span
            /\ \A i, j \in 1..Len(fw) : fw[i].addr = fw[j].addr => i = j
            /\ pc = "done" => { fw[i].addr : i \in 1..Len(fw) } = span

\* a finished unaligned write of more than one word
C1_Witness ==
    /\ pc = "done"
    /\ call.op = "write"
    /\ call.offset % 4 = 3
    /\ call.count = 3
    /\ Len(FlashWrites) = 2

\* the byte the claim expects at flash address a of a write call
ExpectedByte(a) ==
    IF call.offset <= a /\ a < call.offset + call.count
    THEN call.buffer[a - call.offset + 1]
    ELSE 255

\* C2: every word a write call programs at address a holds, lowest address
\* first, buffer[a + k - offset] in byte k when a + k lies in
\* [offset, offset + count), and 0xFF in every other byte.
C2_WordBytes ==
    call.op = "write" =>
        \A i \in 1..Len(log) :
            IsFlashWrite(log[i]) =>
                \A k \in 0..3 : log[i].val[k + 1] = ExpectedByte(log[i].addr + k)

\* write([0xAA, 0xBB, 0xCC], offset 2, count 3) has programmed
\* FF FF AA BB at 0 and CC FF FF FF at 4
C2_Witness ==
    /\ pc = "done"
    /\ call.op = "write"
    /\ call.offset = 2
    /\ call.buffer = <<170, 187, 204>>
    /\ FlashWrites = << WriteAcc(0, <<255, 255, 170, 187>>),
                        WriteAcc(4, <<204, 255, 255, 255>>) >>

----------------------------------------------------------------------------
(* Unlock/Bypass Sequencer *)

\* [start, end) and the region [i * 4096, (i + 1) * 4096) share an address
Intersects(start, end, i) ==
    \E a \in { start, i * 4096 } :
        /\ start <= a /\ a < end
        /\ i * 4096 <= a /\ a < (i + 1) * 4096

\* the mask the last hc32l110_sunlock wrote, read from the log
UnlockWritten == WordVal(log[unlock.at].val)

\* C3 as stated: for every span, the empty ones too, bit i of the mask
\* unlock writes is set iff the span intersects region i.
C3_MaskIffIntersects_AllSpans ==
    (unlock.called /\ 0 <= unlock.start_adr /\ unlock.start_adr <= unlock.end_adr
                   /\ unlock.end_adr <= 32768) =>
        /\ log[unlock.at].op = "w"
        /\ log[unlock.at].addr = HC32L110_FLASH_SLOCK
        /\ \A i \in 0..7 :
              Bit(UnlockWritten, i)
                  <=> Intersects(unlock.start_adr, unlock.end_adr, i)

\* C3 amended: for every span that is not empty, bit i of the mask unlock
\* writes to the sector-lock register is set iff the span intersects
\* region i.
C3_MaskIffIntersects ==
    (unlock.called /\ 0 <= unlock.start_adr /\ unlock.start_adr < unlock.end_adr
                   /\ unlock.end_adr <= 32768) =>
        /\ log[unlock.at].op = "w"
        /\ log[unlock.at].addr = HC32L110_FLASH_SLOCK
        /\ \A i \in 0..7 :
              Bit(UnlockWritten, i)
                  <=> Intersects(unlock.start_adr, unlock.end_adr, i)

\* an unlock of a span that lies in two regions
C3_Witness ==
    /\ unlock.called
    /\ unlock.start_adr = 4092
    /\ unlock.end_adr = 4100
    /\ UnlockWritten = 3

----------------------------------------------------------------------------
(* Erase Engine *)

\* the requests the claim sends down the mass erase path
MassRequest ==
    \/ (call.first = 0 /\ call.last = 0)
    \/ (call.first = 0 /\ call.last >= bank.num_sectors)

\* the sectors a ranged request erases
RequestedSectors == { s \in call.first .. (call.last - 1) : TRUE }

\* C4: an erase call takes the mass erase path (mode EraseChip, one trigger
\* write to address 0, polled with a budget of 3500 ms, no trigger per
\* sector) exactly when first = 0 and last = 0, or first = 0 and
\* last >= num_sectors; every other call takes the sector path, with mode
\* EraseSector and a budget of 50 ms for each sector.
C4_ErasePathSelection ==
    call.op = "erase" =>
        IF MassRequest
        THEN /\ \A i \in 1..Len(ModeWrites) :
                    ModeWrites[i].val = W32(FLASH_OP_ERASE_CHIP)
             /\ \A i \in 1..Len(Polls) : Polls[i].t = 3500
             /\ InPoll => timeout_ms = 3500
             /\ FlashWrites = << WriteAcc(0, W32(0)) >>
             /\ Len(ModeWrites) = 1
             /\ pc = "done" => Len(Polls) = 1
        ELSE /\ \A i \in 1..Len(ModeWrites) :
                    ModeWrites[i].val = W32(FLASH_OP_ERASE_SECTOR)
             /\ \A i \in 1..Len(Polls) : Polls[i].t = 50
             /\ InPoll => timeout_ms = 50
             /\ Len(ModeWrites) = Len(FlashWrites)
             /\ \A i \in 1..Len(FlashWrites) :
                    FlashWrites[i].addr = (call.first + i - 1) * 512
             /\ pc = "done" =>
                    /\ Len(Polls) = Len(FlashWrites)
                    /\ Len(FlashWrites) = Cardinality(RequestedSectors)

\* a finished mass erase asked for as erase(0, num_sectors) of a probed bank
C4_Witness ==
    /\ pc = "done"
    /\ call.op = "erase"
    /\ call.first = 0
    /\ bank.num_sectors > 0
    /\ call.last = bank.num_sectors
    /\ Len(Polls) = 1
    /\ Polls[1].t = 3500

----------------------------------------------------------------------------
(* Completion Poller *)

\* C5: await_completion returns success only when a read of the control
\* register showed the busy bit clear, and returns a timeout error when the
\* deadline has passed with every read showing busy.
C5_PollReportsTimeout ==
    AfterPoll =>
        /\ retval = ERROR_OK => BusyClear(v)
        /\ (~BusyClear(v) /\ now >= endtime) => retval # ERROR_OK

\* C6: in a sector erase, once the poll of a sector has run out of its 50 ms
\* with busy still set no later sector is triggered, and the call returns
\* SectorNotErased.
C6_SectorEraseAbortsOnTimeout ==
    (call.op = "erase" /\ ~MassRequest) =>
        \A i \in 1..Len(log) :
            TimedOutAt(i) =>
                /\ \A j \in (i + 1)..Len(log) : ~IsFlashWrite(log[j])
                /\ pc = "done" => result = ERROR_FLASH_SECTOR_NOT_ERASED

\* C7: in write, once the poll of a word has run out of its 1 ms with busy
\* still set no later word is programmed, and the call returns
\* OperationFailed.
C7_WriteAbortsOnTimeout ==
    call.op = "write" =>
        \A i \in 1..Len(log) :
            TimedOutAt(i) =>
                /\ \A j \in (i + 1)..Len(log) : ~IsFlashWrite(log[j])
                /\ pc = "done" => result = ERROR_FLASH_OPERATION_FAILED

\* C8: a mass erase whose poll ran out of its 3500 ms with busy still set
\* returns OperationFailed.
C8_MassEraseFailsOnTimeout ==
    (call.op = "erase" /\ MassRequest /\ pc = "done") =>
        ((\E i \in 1..Len(log) : TimedOutAt(i))
            => result = ERROR_FLASH_OPERATION_FAILED)

----------------------------------------------------------------------------
(* Geometry Prober *)

\* the size report the probe read
ReportedSize == WordVal(log[1].val)

\* C9: probe fails iff the size report is below 4096 or above 32768; when
\* it succeeds bank.size is the report and num_sectors is the report
\* divided by 512.
C9_ProbeSizeRange ==
    (call.op = "probe" /\ pc = "done") =>
        /\ log[1] = ReadAcc(HC32L110_FLASH_SIZE, W32(ReportedSize))
        /\ result # ERROR_OK <=> (ReportedSize < 4096 \/ ReportedSize > 32768)
        /\ result = ERROR_OK =>
              /\ bank.size = ReportedSize
              /\ bank.num_sectors = ReportedSize \div 512

\* a probe that accepted the smallest size
C9_Witness ==
    /\ pc = "done"
    /\ call.op = "probe"
    /\ ReportedSize = 4096
    /\ result = ERROR_OK
    /\ bank.num_sectors = 8

\* C10: after a successful probe, for every accepted size report, the
\* sector table has offsets 0, 512, 1024, ..., every sector has size 512,
\* erased state unknown and the protected flag clear, and the sectors cover
\* exactly [0, bank.size).
C10_SectorTableCoversBank ==
    (call.op = "probe" /\ pc = "done" /\ result = ERROR_OK) =>
        /\ Len(bank.sectors) = bank.num_sectors
        /\ \A i \in 1..Len(bank.sectors) :
              /\ bank.sectors[i].offset = (i - 1) * 512
              /\ bank.sectors[i].size = 512
              /\ bank.sectors[i].is_erased = -1
              /\ bank.sectors[i].is_protected = 0
        /\ bank.num_sectors * 512 = bank.size

----------------------------------------------------------------------------
(* Lock register discipline *)

IsLockWrite(e) == e.op = "w" /\ e.addr = HC32L110_FLASH_SLOCK

\* the place of the last write to the sector-lock register before place j
\* of the log, 0 when there is none
RECURSIVE LastLockWriteBefore(_)
LastLockWriteBefore(j) ==
    IF j <= 1 THEN 0
    ELSE IF IsLockWrite(log[j - 1]) THEN j - 1
    ELSE LastLockWriteBefore(j - 1)

\* C11: every write to the sector-lock register is immediately preceded by
\* the bypass handshake: the two accesses just before it are the writes of
\* 0x5a5a and then 0xa5a5 to the bypass register.
C11_LockWritePrecededByBypass ==
    \A i \in 1..Len(log) :
        IsLockWrite(log[i]) =>
            /\ i >= 3
            /\ log[i - 2] = WriteAcc(HC32L110_FLASH_BYPASS, W32(23130))
            /\ log[i - 1] = WriteAcc(HC32L110_FLASH_BYPASS, W32(42405))

\* C12: in a sector erase, when the trigger write of sector x is issued
\* (x < num_sectors <= 64) the value last written to the sector-lock
\* register has bit floor(x * 512 / 4096) set and no other bit.
C12_SectorEraseUnlocksOwnRegion ==
    (call.op = "erase" /\ ~MassRequest) =>
        \A j \in 1..Len(log) :
            (IsFlashWrite(log[j]) /\ log[j].addr \div 512 < bank.num_sectors
                                  /\ bank.num_sectors <= 64) =>
                /\ LastLockWriteBefore(j) > 0
                /\ log[LastLockWriteBefore(j)].val
                       = W32(Pow2(((log[j].addr \div 512) * 512) \div 4096))

\* C13: every erase or write call that has returned has ended with
\* lock_all: its last register accesses are the bypass handshake and the
\* write of 0 to the sector-lock register.
C13_CallEndsLocked ==
    (pc = "done" /\ call.op \in {"erase", "write"}) =>
        /\ Len(log) >= 3
        /\ log[Len(log)] = WriteAcc(HC32L110_FLASH_SLOCK, W32(0))
        /\ log[Len(log) - 1] = WriteAcc(HC32L110_FLASH_BYPASS, W32(42405))
        /\ log[Len(log) - 2] = WriteAcc(HC32L110_FLASH_BYPASS, W32(23130))

\* a sector erase that returned after a poll ran out with busy still set
C13_Witness ==
    /\ pc = "done"
    /\ call.op = "erase"
    /\ call.first = 1
    /\ call.last = 3
    /\ \E i \in 1..Len(log) : TimedOutAt(i)
    /\ log[Len(log)] = WriteAcc(HC32L110_FLASH_SLOCK, W32(0))

\* C14: once a register access of an erase, write or probe call has failed
\* in the transport the call issues no further register access and
\* returns an error.
C14_TransportFailurePropagates ==
    (failed # 0 /\ call.op \in {"erase", "write", "probe"}) =>
        /\ Len(log) <= failed
        /\ pc = "done" => result # ERROR_OK

----------------------------------------------------------------------------
(* Sector bookkeeping *)

\* a mass erase that has returned success
MassEraseSucceeded ==
    /\ pc = "done"
    /\ call.op = "erase"
    /\ MassRequest
    /\ result = ERROR_OK

\* C15 as stated: after a successful mass erase every sector of the bank
\* has its erased state set to erased.
C15_MassEraseMarksErased ==
    MassEraseSucceeded =>
        \A i \in 1..Len(bank.sectors) : bank.sectors[i].is_erased = 1

\* C15 amended: after a successful mass erase the sector table is as the
\* call found it and the erased state of every sector is still unknown.
C15_MassEraseLeavesStateUnknown ==
    MassEraseSucceeded =>
        /\ Len(bank.sectors) = call.bank0.num_sectors
        /\ \A i \in 1..Len(bank.sectors) : bank.sectors[i].is_erased = -1

\* erase(0, 64) on a bank of 32768 bytes has returned success
C15_Witness ==
    /\ MassEraseSucceeded
    /\ call.first = 0
    /\ call.last = 64
    /\ bank.size = 32768
    /\ Len(bank.sectors) = 64
    /\ Polls[1].t = 3500

\* the sector table of a bank of n sectors right after a probe
FreshSectors(n) ==
    [i \in 1..n |-> [offset |-> (i - 1) * 512, size |-> 512,
                     is_erased |-> -1, is_protected |-> 0]]

\* C16: a successful probe leaves size, num_sectors and the sector table
\* that the size report alone determines, whatever the bank held before:
\* a probe with the report of the probe before changes nothing, and a
\* probe with a different report keeps no entry of the old table.
C16_ProbeIdempotent ==
    [][ (pc = "idle" /\ call'.op = "probe" /\ result' = ERROR_OK) =>
            LET s == WordVal(log'[1].val)
            IN  /\ bank'.size = s
                /\ bank'.num_sectors = s \div 512
                /\ bank'.sectors = FreshSectors(s \div 512)
                /\ (bank.size = s /\ bank.num_sectors = s \div 512
                        /\ bank.sectors = FreshSectors(s \div 512))
                      => bank' = bank ]_vars

\* a probe of an already probed bank with the same size report
C16_Witness ==
    /\ pc = "done"
    /\ call.op = "probe"
    /\ result = ERROR_OK
    /\ call.bank0 = [size |-> 16384, num_sectors |-> 32]
    /\ bank.size = 16384
    /\ Len(bank.sectors) = 32

----------------------------------------------------------------------------
(* Order of the register accesses *)

\* the mode an erase or write call has to select
CallMode ==
    IF call.op = "write" THEN FLASH_OP_PROGRAM
    ELSE IF MassRequest THEN FLASH_OP_ERASE_CHIP
    ELSE FLASH_OP_ERASE_SECTOR

\* the place of the last flash-address write before place j, 0 if none
RECURSIVE LastFlashWriteBefore(_)
LastFlashWriteBefore(j) ==
    IF j <= 1 THEN 0
    ELSE IF IsFlashWrite(log[j - 1]) THEN j - 1
    ELSE LastFlashWriteBefore(j - 1)

\* where the accesses that prepare the flash write at place j start: the
\* start of the call, or in a sector erase the end of the pass before
PrepareFrom(j) ==
    IF call.op = "erase" THEN LastFlashWriteBefore(j) + 1 ELSE 1

\* C17: in every erase or write call each flash-address write comes after
\* the bypass handshake, the write of the mode of the call to the control
\* register and, after that, the write of a mask to the lock register, all
\* of the same call (of the same pass of a sector erase); and each
\* flash-address write is followed by a completion poll before the next
\* flash-address write.
C17_AccessOrder ==
    call.op \in {"erase", "write"} =>
        \A j \in 1..Len(log) :
            IsFlashWrite(log[j]) =>
                /\ \E i \in PrepareFrom(j)..(j - 1) :
                      /\ i >= PrepareFrom(j) + 2
                      /\ log[i - 2] = WriteAcc(HC32L110_FLASH_BYPASS, W32(23130))
                      /\ log[i - 1] = WriteAcc(HC32L110_FLASH_BYPASS, W32(42405))
                      /\ log[i] = WriteAcc(HC32L110_FLASH_CR, W32(CallMode))
                      /\ \E k \in (i + 1)..(j - 1) :
                            /\ IsLockWrite(log[k])
                            /\ log[k].val # W32(0)
                /\ \A i \in 1..Len(log) :
                      IsModeWrite(log[i]) => log[i].val = W32(CallMode)
                /\ IF j < Len(log)
                   THEN IsPoll(log[j + 1])
                   ELSE InPoll

\* a finished sector erase of two sectors
C17_Witness ==
    /\ pc = "done"
    /\ call.op = "erase"
    /\ call.first = 7
    /\ call.last = 9
    /\ Len(FlashWrites) = 2
    /\ Len(Polls) = 2

----------------------------------------------------------------------------
(* Termination of the poll *)

Max(a, b) == IF a >= b THEN a ELSE b

\* the shape of a poll: one read first, one sleep after each busy read,
\* nothing after a read that shows busy clear, at most max(1, timeout_ms)
\* reads
PollShape ==
    /\ pc = "poll_read" => (sleeps = reads /\ (reads > 0 => ~BusyClear(v)))
    /\ pc = "poll_sleep" => (reads = sleeps + 1 /\ ~BusyClear(v))
    /\ AfterPoll =>
          \/ (BusyClear(v) /\ reads = sleeps + 1)
          \/ (~BusyClear(v) /\ reads = sleeps /\ now >= endtime)
    /\ (InPoll \/ AfterPoll) =>
          /\ reads <= Max(1, timeout_ms)
          /\ now >= sleeps
          /\ (pc # "poll_read" => reads >= 1)

\* C18: with a clock that advances by at least 1 ms in every sleep,
\* await_completion reads the control register first without a sleep,
\* sleeps once after each read that shows busy, stops at the first read
\* that shows busy clear, reads at most max(1, timeout_ms) times, and
\* always returns.
C18_PollTerminates ==
    /\ []PollShape
    /\ (InPoll ~> AfterPoll)

\* a poll of 50 ms that returned after its 50th read, all of them busy
C18_Witness ==
    /\ pc = "erase_sector_after"
    /\ timeout_ms = 50
    /\ reads = 50
    /\ sleeps = 50
    /\ ~BusyClear(v)

----------------------------------------------------------------------------
(* Unlock mask of a write *)

\* C19: in a write call every word programmed at flash address a is issued
\* while the value last written to the sector-lock register has the bit of
\* region floor(a / 4096) set.
C19_WriteWordsUnlocked ==
    call.op = "write" =>
        \A j \in 1..Len(log) :
            IsFlashWrite(log[j]) =>
                /\ LastLockWriteBefore(j) > 0
                /\ Bit(WordVal(log[LastLockWriteBefore(j)].val),
                       log[j].addr \div 4096)

\* a write that programmed a word in region 0 and a word in region 1
C19_Witness ==
    /\ pc = "done"
    /\ call.op = "write"
    /\ call.offset = 4093
    /\ call.count = 4
    /\ Len(FlashWrites) = 2
    /\ FlashWrites[1].addr = 4092
    /\ FlashWrites[2].addr = 4096

----------------------------------------------------------------------------
(* Frame of a rejected probe *)

\* C20: a probe that fails the size range check leaves the bank descriptor
\* as it was: size, num_sectors and the sector table.
C20_FailedProbeKeepsBank ==
    [][ (pc = "idle" /\ call'.op = "probe" /\ result' # ERROR_OK)
            => bank' = bank ]_vars

\* a rejected probe of a bank that an earlier probe had sized to 4096 bytes
C20_Witness ==
    /\ pc = "done"
    /\ call.op = "probe"
    /\ result = ERROR_FLASH_OPERATION_FAILED
    /\ ReportedSize = 32769
    /\ call.bank0 = [size |-> 4096, num_sectors |-> 8]
    /\ bank.size = 4096
    /\ Len(bank.sectors) = 8

====
